---- MODULE Spec2Model ----
(***************************************************************************)
(* golsm: write-ahead log (src/wal), skip list (src/skiplist) and the     *)
(* MemTable that composes them (src/memtable).                             *)
(*                                                                         *)
(* The WAL file is a sequence of bytes (0..255).  File offsets are         *)
(* 0-based as in the Go code; the byte at offset o is file[o + 1].         *)
(***************************************************************************)
EXTENDS Integers, Sequences, FiniteSets, TLC

(***************************************************************************)
(* Bounds of the model.                                                    *)
(***************************************************************************)
\* longest file the model lets a write produce
MaxFileLen == 20
\* highest level randomLevel draws in the model (the code draws up to maxLevel)
MaxDrawLevel == 2
\* longest batch handed to WriteBatch
MaxBatch == 2
\* how many calls on an open handle the model lets fail in the file system
MaxFails == 1
\* how many times the model opens a WAL on the file
MaxOpens == 2
\* how many calls the threads of the concurrent model make in all
MaxCalls == 4
\* how many records the log holds when a byte of it is altered
MaxLog == 2

(***************************************************************************)
(* Program constants.                                                      *)
(***************************************************************************)
TypePut == 1
TypeDelete == 2
maxLevel == 32

\* value a decoded varint saturates at; larger than any file of the model,
\* so a saturated length always runs past the end of the file
VarintCap == 1073741824

Nil == 0

(***************************************************************************)
(* Bytes and sequences.                                                    *)
(***************************************************************************)
Min(a, b) == IF a < b THEN a ELSE b
Max(a, b) == IF a > b THEN a ELSE b

\* s[from .. to) with 0-based offsets, as a Go slice expression
Slice(s, from, to) == [i \in 1..(to - from) |-> s[from + i]]

RECURSIVE XorBits(_, _, _)
XorBits(a, b, n) ==
    IF n = 0 THEN 0
    ELSE ((a + b) % 2) + 2 * XorBits(a \div 2, b \div 2, n - 1)

\* a ^ b on bytes
XorByte(a, b) == XorBits(a, b, 8)

\* a ^ b on 32-bit words kept as 4 little-endian bytes
Xor32(a, b) == [i \in 1..4 |-> XorByte(a[i], b[i])]

\* c >> 1 on a 32-bit word kept as 4 little-endian bytes
Shr1(c) == [i \in 1..4 |-> (c[i] \div 2) + (IF i < 4 THEN (c[i + 1] % 2) * 128 ELSE 0)]

\* c >> 8
Shr8(c) == <<c[2], c[3], c[4], 0>>

\* the reversed IEEE polynomial 0xEDB88320, little-endian
IEEEPoly == <<32, 131, 184, 237>>

RECURSIVE CrcEntry(_, _)
CrcEntry(c, k) ==
    IF k = 0 THEN c
    ELSE CrcEntry(IF c[1] % 2 = 1 THEN Xor32(Shr1(c), IEEEPoly) ELSE Shr1(c), k - 1)

\* the table crc32.ChecksumIEEE indexes, built once (@@ makes the function explicit)
IEEETable == [n \in 0..255 |-> CrcEntry(<<n, 0, 0, 0>>, 8)] @@ <<>>

RECURSIVE CrcUpdate(_, _, _)
CrcUpdate(crc, data, i) ==
    IF i > Len(data) THEN crc
    ELSE CrcUpdate(Xor32(IEEETable[XorByte(crc[1], data[i])], Shr8(crc)), data, i + 1)

\* crc32.ChecksumIEEE(data) followed by binary.LittleEndian.PutUint32:
\* the checksum as the 4 bytes the record carries
ChecksumIEEE(data) ==
    Xor32(CrcUpdate(<<255, 255, 255, 255>>, data, 1), <<255, 255, 255, 255>>)

(***************************************************************************)
(* Varints.                                                                *)
(***************************************************************************)
RECURSIVE encodeVarint(_)
encodeVarint(x) ==
    IF x < 128 THEN <<x>>
    ELSE <<(x % 128) + 128>> \o encodeVarint(x \div 128)

SatMul(b, m) == IF b = 0 THEN 0 ELSE IF m > VarintCap \div b THEN VarintCap ELSE b * m
SatAdd(a, b) == IF a >= VarintCap - b THEN VarintCap ELSE a + b

\* readUvarint reading the file handle from offset p: i bytes read so far,
\* x the value so far, m = 2^s
RECURSIVE readUvarintFrom(_, _, _, _, _)
readUvarintFrom(f, p, i, x, m) ==
    IF p >= Len(f) THEN [err |-> "EOF", val |-> 0, n |-> 0]
    ELSE LET b == f[p + 1] IN
         IF b < 128
         THEN IF i > 9 \/ (i = 9 /\ b > 1)
              THEN [err |-> "overflow", val |-> 0, n |-> 0]
              ELSE [err |-> "nil", val |-> SatAdd(x, SatMul(b, m)), n |-> i + 1]
         ELSE readUvarintFrom(f, p + 1, i + 1, SatAdd(x, SatMul(b - 128, m)),
                              SatMul(128, m))

readUvarint(f, p) == readUvarintFrom(f, p, 0, 0, 1)

(***************************************************************************)
(* Records and their encoding.                                             *)
(***************************************************************************)
\* keys and values of the model: two keys of different length, two values;
\* the WAL is driven with the records of one value
Keys == {<<1>>, <<2, 1>>}
Values == {<<7>>, <<8>>}
WalValues == {<<7>>}

PutRecord(k, v) == [Type |-> TypePut, Key |-> k, Value |-> v]
\* Delete writes Value: nil
DeleteRecord(k) == [Type |-> TypeDelete, Key |-> k, Value |-> <<>>]

AllRecords == {PutRecord(k, v) : k \in Keys, v \in Values} \cup {DeleteRecord(k) : k \in Keys}
Records == {PutRecord(k, v) : k \in Keys, v \in WalValues} \cup {DeleteRecord(k) : k \in Keys}

\* the nil *Record of an error return
NoRecord == [Type |-> 0, Key |-> <<>>, Value |-> <<>>]

\* a record buffer with the value length put before the key length
EncodeRecordValueLenFirst(record) ==
    LET keyLenEncoded == encodeVarint(Len(record.Key))
        valueLenEncoded == encodeVarint(Len(record.Value))
        head == <<record.Type>> \o valueLenEncoded \o keyLenEncoded
                    \o record.Key \o record.Value
    IN  head \o ChecksumIEEE(head)

\* the buffer WAL.Write builds for one record
EncodeRecord(record) ==
    LET keyLen == Len(record.Key)
        valueLen == Len(record.Value)
        keyLenEncoded == encodeVarint(keyLen)
        valueLenEncoded == encodeVarint(valueLen)
        recordSize == 1 + Len(keyLenEncoded) + Len(valueLenEncoded) + keyLen + valueLen + 4
        head == <<record.Type>> \o keyLenEncoded \o valueLenEncoded
                    \o record.Key \o record.Value
        offset == Len(head)
        checksum == ChecksumIEEE(Slice(head, 0, offset))
    IN  Slice(head \o checksum, 0, recordSize)

\* the first loop of WAL.WriteBatch: totalSize
RECURSIVE BatchTotalSize(_, _)
BatchTotalSize(records, i) ==
    IF i > Len(records) THEN 0
    ELSE LET record == records[i]
             keyLenEncoded == encodeVarint(Len(record.Key))
             valueLenEncoded == encodeVarint(Len(record.Value))
         IN  1 + Len(keyLenEncoded) + Len(valueLenEncoded) + Len(record.Key)
               + Len(record.Value) + 4 + BatchTotalSize(records, i + 1)

\* a round of the loop whose checksum covers the buffer from its start
BatchStepBadRange(buf, record) ==
    LET keyLenEncoded == encodeVarint(Len(record.Key))
        valueLenEncoded == encodeVarint(Len(record.Value))
        filled == buf \o <<record.Type>> \o keyLenEncoded \o valueLenEncoded
                      \o record.Key \o record.Value
        offset == Len(filled)
    IN  filled \o ChecksumIEEE(Slice(filled, 0, offset))

\* one round of the second loop of WAL.WriteBatch: buf[:offset] after record i
BatchStep(buf, record) ==
    LET keyLen == Len(record.Key)
        valueLen == Len(record.Value)
        keyLenEncoded == encodeVarint(keyLen)
        valueLenEncoded == encodeVarint(valueLen)
        filled == buf \o <<record.Type>> \o keyLenEncoded \o valueLenEncoded
                      \o record.Key \o record.Value
        offset == Len(filled)
        recordSize == 1 + Len(keyLenEncoded) + Len(valueLenEncoded) + keyLen + valueLen
        checksum == ChecksumIEEE(Slice(filled, offset - recordSize, offset))
    IN  filled \o checksum

RECURSIVE BatchFill(_, _, _)
BatchFill(records, i, buf) ==
    IF i > Len(records) THEN buf
    ELSE BatchFill(records, i + 1, BatchStep(buf, records[i]))

\* the buffer WAL.WriteBatch builds: make([]byte, totalSize), filled by the loop
EncodeBatch(records) ==
    LET totalSize == BatchTotalSize(records, 1)
        filled == BatchFill(records, 1, <<>>)
    IN  [i \in 1..totalSize |-> IF i <= Len(filled) THEN filled[i] ELSE 0]

(***************************************************************************)
(* The file behind the handles.                                            *)
(***************************************************************************)
\* os.File.Write of bytes at the handle's offset pos.  Open passes
\* O_CREATE|O_RDWR and no O_APPEND, so the write lands at the handle's own
\* offset: it overwrites what is there and extends the file past its end
\* (a gap is read back as zeros).
FileWriteAt(f, pos, bytes) ==
    IF Len(bytes) = 0 THEN f
    ELSE LET pre == [i \in 1..pos |-> IF i <= Len(f) THEN f[i] ELSE 0]
             end == pos + Len(bytes)
             post == IF end < Len(f) THEN Slice(f, end, Len(f)) ELSE <<>>
         IN  pre \o bytes \o post

\* io.ReadFull(file, make([]byte, n)) with the handle at offset p
ReadFullAt(f, p, n) ==
    LET avail == Max(0, Len(f) - p) IN
    IF n = 0 THEN [err |-> "nil", bytes |-> <<>>]
    ELSE IF avail = 0 THEN [err |-> "EOF", bytes |-> <<>>]
    ELSE IF avail < n THEN [err |-> "unexpected EOF", bytes |-> <<>>]
    ELSE [err |-> "nil", bytes |-> Slice(f, p, p + n)]

(***************************************************************************)
(* Iterator.Next.                                                          *)
(***************************************************************************)
NextError(e) == [err |-> e, rec |-> NoRecord, size |-> 0, ck |-> <<>>]

\* the first pass of Next: seek to offset, read type, lengths, key, value
\* and checksum; size is recordSize
NextRead(f, offset) ==
    IF offset >= Len(f) THEN NextError("EOF")
    ELSE LET recordType == f[offset + 1] IN
    IF recordType # TypePut /\ recordType # TypeDelete THEN NextError("invalid record")
    ELSE LET kl == readUvarint(f, offset + 1) IN
    IF kl.err # "nil" THEN NextError(kl.err)
    ELSE LET vl == readUvarint(f, offset + 1 + kl.n) IN
    IF vl.err # "nil" THEN NextError(vl.err)
    ELSE LET keyAt == offset + 1 + kl.n + vl.n
             key == ReadFullAt(f, keyAt, kl.val) IN
    IF key.err # "nil" THEN NextError(key.err)
    ELSE LET value == ReadFullAt(f, keyAt + kl.val, vl.val) IN
    IF value.err # "nil" THEN NextError(value.err)
    ELSE LET checksumBuf == ReadFullAt(f, keyAt + kl.val + vl.val, 4) IN
    IF checksumBuf.err # "nil" THEN NextError(checksumBuf.err)
    ELSE [err |-> "nil",
          rec |-> [Type |-> recordType, Key |-> key.bytes, Value |-> value.bytes],
          size |-> 1 + kl.n + vl.n + kl.val + vl.val + 4,
          ck |-> checksumBuf.bytes]

\* a second pass that does not compare the checksums
NextVerifyNoCheck(f, offset, rd) == rd

\* the second pass of Next: seek back to offset, read recordSize-4 bytes again,
\* compare the checksums
NextVerify(f, offset, rd) ==
    LET data == ReadFullAt(f, offset, rd.size - 4) IN
    IF data.err # "nil" THEN NextError(data.err)
    ELSE IF ChecksumIEEE(data.bytes) # rd.ck THEN NextError("invalid checksum")
    ELSE rd

\* Next on an iterator whose two passes see the same file
IteratorNext(f, iter) ==
    IF iter.offset >= iter.fileEnd THEN NextError("EOF")
    ELSE IF iter.state = "closed" THEN NextError("closed")
    ELSE LET rd == NextRead(f, iter.offset) IN
         IF rd.err # "nil" THEN rd ELSE NextVerify(f, iter.offset, rd)

\* an iterator over file f bounded by fileEnd, driven from offset until Next
\* returns an error: the records returned, the error and the offset reached
RECURSIVE Drain(_, _, _, _)
Drain(f, offset, fileEnd, recs) ==
    LET r == IteratorNext(f, [state |-> "open", offset |-> offset, fileEnd |-> fileEnd])
    IN  IF r.err # "nil" THEN [recs |-> recs, err |-> r.err, offset |-> offset]
        ELSE Drain(f, offset + r.size, fileEnd, Append(recs, r.rec))

\* what an iterator of a WAL just opened on file f returns
Replay(f) == Drain(f, 0, Len(f), <<>>)

(***************************************************************************)
(* State.                                                                  *)
(***************************************************************************)
VARIABLES
    file,   \* the bytes of the file at the WAL's path
    w,      \* the WAL: state of its handle, the handle's offset pos, size, syncOps
    iter,   \* the wal.Iterator: state of its handle, offset, fileEnd
    call,   \* the last call that returned: op, ret (its error), io (of a write:
            \* how file.Write and file.Sync ended)
    hist,   \* history: logged, the records the file held when the WAL was opened
            \* and those of the calls that returned nil since, up to the last
            \* Truncate; clean, whether the WAL was opened on an
            \* empty file and has only seen Write calls that returned nil; twin,
            \* what Write calls in place of the last WriteBatch would have left;
            \* fails, the calls that failed in the file system so far; opens, the
            \* calls of Open that returned a WAL so far
    obs,    \* what the iterator was created on and has returned: snap (logged
            \* at NewIterator), clean (at NewIterator), recs, err (of the last Next)
    list,   \* the skiplist.SkipList
    mt,     \* memtable: made (a MemTable exists), newResult (of the last New)
    mu,     \* WAL.mu: the thread holding it, or Nil
    pc,     \* per thread: where it is in its call
    cur,    \* per thread: the call it is in
    rd      \* the reader between the two passes of Iterator.Next

walVars == <<file, w, iter, call, hist, obs>>
listVars == <<list>>
memVars == <<mt>>
concVars == <<mu, pc, cur, rd>>
\* what the WAL's one caller leaves alone
notWal == <<list, mt, mu, pc, cur, rd>>
vars == <<file, w, iter, call, hist, obs, list, mt, mu, pc, cur, rd>>

NoWAL == [state |-> "none", pos |-> 0, size |-> 0, syncOps |-> FALSE]
NoIter == [state |-> "none", offset |-> 0, fileEnd |-> 0]
NoCall == [op |-> "none", ret |-> "nil"]
NoTwin == [file |-> <<>>, size |-> 0, n |-> 0]
NoObs == [snap |-> <<>>, clean |-> FALSE, recs |-> <<>>, err |-> "nil"]

(***************************************************************************)
(* WAL operations as functions of the file and the WAL.                    *)
(***************************************************************************)
\* the batches handed to WriteBatch
RECURSIVE SeqsUpTo(_, _)
SeqsUpTo(S, n) ==
    IF n = 0 THEN {<<>>}
    ELSE LET shorter == SeqsUpTo(S, n - 1)
         IN  shorter \cup {Append(q, x) : q \in {t \in shorter : Len(t) = n - 1}, x \in S}

Batches == SeqsUpTo(Records, MaxBatch)

\* the buffers of the model's records and batches, built once
RecordBuf == [record \in AllRecords |-> EncodeRecord(record)] @@ <<>>
BatchBuf == [records \in Batches |-> EncodeBatch(records)] @@ <<>>
BatchSize == [records \in Batches |-> BatchTotalSize(records, 1)] @@ <<>>

\* how many bytes of a buffer of length n reach the file when file.Write fails
PartialCuts(n) == {k \in {0, 1, n - 1} : 0 <= k /\ k < n}

\* the ways file.Write and file.Sync can end for a buffer of length n: "ok",
\* "write" (file.Write fails after o.n bytes), "sync" (file.Sync fails).
\* A closed handle fails every write before any byte.
IOOutcomes(w0, n, mayFail) ==
    IF w0.state = "closed" THEN {[kind |-> "write", n |-> 0]}
    ELSE {[kind |-> "ok", n |-> n]}
         \cup (IF mayFail THEN {[kind |-> "write", n |-> k] : k \in PartialCuts(n)} ELSE {})
         \cup (IF mayFail /\ w0.syncOps THEN {[kind |-> "sync", n |-> n]} ELSE {})

\* w.file.Write(buf): o.n bytes land at the handle's offset, which moves past them
FileWriteStep(f, w0, buf, o) ==
    [file |-> FileWriteAt(f, w0.pos, Slice(buf, 0, o.n)),
     w |-> [w0 EXCEPT !.pos = @ + o.n],
     ret |-> IF o.kind = "write" THEN "io" ELSE "nil"]

\* a size update that also counts a record whose Sync failed
SyncAndSizeCountsFailed(st, n, o) ==
    [st EXCEPT !.w.size = @ + n,
               !.ret = IF st.w.syncOps /\ o.kind = "sync" THEN "io" ELSE @]

\* the rest of Write and WriteBatch after file.Write returned nil: the
\* optional Sync, then w.size += n
SyncAndSize(st, n, o) ==
    IF st.w.syncOps /\ o.kind = "sync" THEN [st EXCEPT !.ret = "io"]
    ELSE [st EXCEPT !.w.size = @ + n]

\* WAL.Write(record) under the lock
WriteResult(f, w0, record, o) ==
    LET buf == RecordBuf[record]
        recordSize == Len(buf)
        st == FileWriteStep(f, w0, buf, o)
    IN  IF st.ret # "nil" THEN st ELSE SyncAndSize(st, recordSize, o)

\* WAL.WriteBatch(records) under the lock
WriteBatchResult(f, w0, records, o) ==
    LET buf == BatchBuf[records]
        totalSize == BatchSize[records]
        st == FileWriteStep(f, w0, buf, o)
    IN  IF st.ret # "nil" THEN st ELSE SyncAndSize(st, totalSize, o)

\* Write called for each record of records in order, every call returning nil
RECURSIVE WriteEach(_, _, _, _)
WriteEach(f, w0, records, i) ==
    IF i > Len(records) THEN [file |-> f, w |-> w0, ret |-> "nil"]
    ELSE LET st == WriteResult(f, w0, records[i],
                               [kind |-> "ok", n |-> Len(RecordBuf[records[i]])])
         IN  WriteEach(st.file, st.w, records, i + 1)

\* the ways Truncate can end: "ok" or "truncate" (file.Truncate fails and the
\* file is as before).  file.Seek(0, 0) on the open handle of a regular file
\* has no way to fail, so its error return is never taken.
TruncateOutcomes(w0, mayFail) ==
    IF w0.state = "closed" THEN {"truncate"}
    ELSE IF mayFail THEN {"ok", "truncate"} ELSE {"ok"}

\* WAL.Truncate() under the lock
TruncateResult(f, w0, o) ==
    IF o = "truncate" THEN [file |-> f, w |-> w0, ret |-> "io"]
    ELSE [file |-> <<>>, w |-> [w0 EXCEPT !.pos = 0, !.size = 0], ret |-> "nil"]

\* the Iterator NewIterator returns: its own handle, offset 0, fileEnd w.size
NewIteratorResult(w0) == [state |-> "open", offset |-> 0, fileEnd |-> w0.size]

(***************************************************************************)
(* The WAL used by one caller: every call runs to its return.              *)
(***************************************************************************)
\* wal.Open(path, syncOps): a new WAL on the file, its handle at offset 0
\* whether the model lets one more call fail in the file system
MayFail == hist.fails < MaxFails

\* hist.fails after a call on WAL w0 returned ret
Fails(w0, ret) == IF w0.state = "open" /\ ret # "nil" THEN hist.fails + 1 ELSE hist.fails

OpenResult(f, syncOps) ==
    [state |-> "open", pos |-> 0, size |-> Len(f), syncOps |-> syncOps]

Open(syncOps, ok) ==
    /\ w.state # "open"
    /\ hist.opens < MaxOpens
    /\ IF ok
       THEN /\ w' = OpenResult(file, syncOps)
            /\ call' = [op |-> "Open", ret |-> "nil"]
            /\ hist' = [logged |-> Replay(file).recs,
                        clean |-> file = <<>>,
                        twin |-> NoTwin,
                        fails |-> hist.fails,
                        opens |-> hist.opens + 1]
       ELSE /\ call' = [op |-> "Open", ret |-> "io"]
            /\ UNCHANGED <<w, hist>>
    /\ obs' = [obs EXCEPT !.clean = FALSE]
    /\ UNCHANGED <<file, iter, notWal>>

Close ==
    /\ w.state \in {"open", "closed"}
    /\ w' = [w EXCEPT !.state = "closed"]
    /\ call' = [op |-> "Close", ret |-> IF w.state = "open" THEN "nil" ELSE "closed"]
    /\ hist' = [hist EXCEPT !.clean = FALSE, !.twin = NoTwin]
    /\ obs' = [obs EXCEPT !.clean = FALSE]
    /\ UNCHANGED <<file, iter, notWal>>

Write(record) ==
    /\ w.state \in {"open", "closed"}
    /\ \E o \in IOOutcomes(w, Len(RecordBuf[record]), MayFail) :
         LET st == WriteResult(file, w, record, o) IN
         /\ Len(st.file) <= MaxFileLen
         /\ file' = st.file
         /\ w' = st.w
         /\ call' = [op |-> "Write", ret |-> st.ret, io |-> o.kind]
         /\ hist' = [logged |-> IF st.ret = "nil" THEN Append(hist.logged, record)
                                ELSE hist.logged,
                     clean |-> hist.clean /\ st.ret = "nil",
                     twin |-> NoTwin,
                     fails |-> Fails(w, st.ret),
                     opens |-> hist.opens]
         /\ obs' = [obs EXCEPT !.clean = @ /\ st.ret = "nil"]
    /\ UNCHANGED <<iter, notWal>>

WriteBatch(records) ==
    /\ w.state \in {"open", "closed"}
    /\ \E o \in IOOutcomes(w, Len(BatchBuf[records]), MayFail) :
         LET st == WriteBatchResult(file, w, records, o)
             each == WriteEach(file, w, records, 1)
         IN
         /\ Len(st.file) <= MaxFileLen
         /\ file' = st.file
         /\ w' = st.w
         /\ call' = [op |-> "WriteBatch", ret |-> st.ret, io |-> o.kind]
         /\ hist' = [logged |-> IF st.ret = "nil" THEN hist.logged \o records
                                ELSE hist.logged,
                     clean |-> FALSE,
                     twin |-> IF st.ret = "nil"
                              THEN [file |-> each.file, size |-> each.w.size,
                                    n |-> Len(records)]
                              ELSE NoTwin,
                     fails |-> Fails(w, st.ret),
                     opens |-> hist.opens]
    /\ obs' = [obs EXCEPT !.clean = FALSE]
    /\ UNCHANGED <<iter, notWal>>

Truncate ==
    /\ w.state \in {"open", "closed"}
    /\ \E o \in TruncateOutcomes(w, MayFail) :
         LET st == TruncateResult(file, w, o) IN
         /\ file' = st.file
         /\ w' = st.w
         /\ call' = [op |-> "Truncate", ret |-> st.ret]
         /\ hist' = [logged |-> IF st.ret = "nil" THEN <<>> ELSE hist.logged,
                     clean |-> FALSE,
                     twin |-> NoTwin,
                     fails |-> Fails(w, st.ret),
                     opens |-> hist.opens]
    /\ obs' = [obs EXCEPT !.clean = FALSE]
    /\ UNCHANGED <<iter, notWal>>

\* NewIterator: os.Open of the file's name (ok or not), then the snapshot of w.size
NewIterator(ok) ==
    /\ w.state \in {"open", "closed"}
    /\ iter.state # "open"
    /\ IF ok
       THEN /\ iter' = NewIteratorResult(w)
            /\ obs' = [snap |-> hist.logged, clean |-> hist.clean,
                       recs |-> <<>>, err |-> "nil"]
            /\ call' = [op |-> "NewIterator", ret |-> "nil"]
       ELSE /\ call' = [op |-> "NewIterator", ret |-> "io"]
            /\ UNCHANGED <<iter, obs>>
    /\ hist' = [hist EXCEPT !.twin = NoTwin]
    /\ UNCHANGED <<file, w, notWal>>

\* Iterator.Next by the one caller: both passes see the same file
Next ==
    /\ iter.state \in {"open", "closed"}
    /\ LET r == IteratorNext(file, iter) IN
       /\ iter' = [iter EXCEPT !.offset = @ + r.size]
       /\ obs' = [obs EXCEPT !.recs = IF r.err = "nil" THEN Append(@, r.rec) ELSE @,
                             !.err = r.err]
       /\ call' = [op |-> "Next", ret |-> r.err]
    /\ hist' = [hist EXCEPT !.twin = NoTwin]
    /\ UNCHANGED <<file, w, notWal>>

\* Iterator.Close
IterClose ==
    /\ iter.state = "open"
    /\ iter' = [iter EXCEPT !.state = "closed"]
    /\ call' = [op |-> "IterClose", ret |-> "nil"]
    /\ hist' = [hist EXCEPT !.twin = NoTwin]
    /\ UNCHANGED <<file, w, obs, notWal>>

WalInit ==
    /\ file = <<>>
    /\ w = NoWAL
    /\ iter = NoIter
    /\ call = NoCall
    /\ hist = [logged |-> <<>>, clean |-> FALSE, twin |-> NoTwin, fails |-> 0, opens |-> 0]
    /\ obs = NoObs

Init ==
    /\ WalInit
    /\ list = 0
    /\ mt = 0
    /\ mu = 0
    /\ pc = 0
    /\ cur = 0
    /\ rd = 0

WalNext ==
    \/ \E syncOps \in BOOLEAN, ok \in BOOLEAN : Open(syncOps, ok)
    \/ Close
    \/ \E record \in Records : Write(record)
    \/ \E records \in Batches : WriteBatch(records)
    \/ Truncate

\* one caller opening, writing, truncating and closing a WAL
Spec == Init /\ [][WalNext]_vars

IterNext ==
    \/ \E syncOps \in BOOLEAN : Open(syncOps, TRUE)
    \/ \E record \in Records : Write(record)
    \/ \E ok \in BOOLEAN : NewIterator(ok)
    \/ Next
    \/ IterClose

\* one caller writing records to a WAL and reading them back
SpecIter == Init /\ [][IterNext]_vars

(***************************************************************************)
(* Claims about the WAL used by one caller.                                *)
(***************************************************************************)
IsPrefix(p, q) == Len(p) <= Len(q) /\ p = Slice(q, 0, Len(p))

\* C5: after N Write calls on a WAL opened on an empty file, each returning
\* nil, an iterator created then returns a prefix of exactly those records in
\* write order, and its first error is end-of-log, returned after all N.
C5_RoundTrip ==
    (iter.state = "open" /\ obs.clean) =>
        /\ IsPrefix(obs.recs, obs.snap)
        /\ obs.err # "nil" => (obs.err = "EOF" /\ obs.recs = obs.snap)

\* an iterator over two written records has returned both and then end-of-log
C5_Witness ==
    /\ iter.state = "open" /\ obs.clean
    /\ Len(obs.snap) = 2 /\ obs.recs = obs.snap /\ obs.err = "EOF"

\* C6: every Write or WriteBatch that returns nil leaves the old bytes of the
\* file in place and puts its buffer right after them, also the first write
\* on a WAL opened on a non-empty file.
C6_AppendsAfterAllBytes ==
    [][/\ \A record \in Records :
            (Write(record) /\ call'.ret = "nil") => file' = file \o RecordBuf[record]
       /\ \A records \in Batches :
            (WriteBatch(records) /\ call'.ret = "nil") => file' = file \o BatchBuf[records]
      ]_vars

\* C7: in every reachable state the file is a concatenation of complete
\* records with valid checksums: a replay from offset 0 reaches its end.
C7_FileIsCompleteRecords == Replay(file).offset = Len(file)

\* C10: a WriteBatch that returned nil left the file bytes and the logical
\* size that Write calls for the same records in order, from the same state,
\* would have left.
C10_BatchEqualsWrites ==
    (call.op = "WriteBatch" /\ call.ret = "nil") =>
        (file = hist.twin.file /\ w.size = hist.twin.size)

\* a batch of a Put and a Delete was written after the bytes an earlier
\* failed write left in the file
C10_Witness ==
    /\ call.op = "WriteBatch" /\ call.ret = "nil"
    /\ hist.twin.n = 2 /\ w.pos > w.size
    /\ Len(hist.logged) = 2 /\ hist.logged[1].Type # hist.logged[2].Type

\* C19: a Write or WriteBatch whose file write or sync fails returns the
\* error and leaves w.size as it was before the call (call.io is how the
\* file write and the sync of the call ended).
C19_FailedWriteKeepsSize ==
    [][(call'.op \in {"Write", "WriteBatch"} /\ call'.io # "ok")
          => (call'.ret = "io" /\ w'.size = w.size)]_vars

\* the Sync of a WriteBatch failed after its buffer reached the file
C19_Witness ==
    /\ call.op = "WriteBatch" /\ call.io = "sync" /\ call.ret = "io"
    /\ w.state = "open" /\ Len(file) > w.size

(***************************************************************************)
(* The skip list.  Nodes live in list.nodes under node ids; a pointer is a *)
(* node id or Nil, and the head is the node HeadNode.  forward[i] of the   *)
(* code is forward[i + 1] here.                                            *)
(***************************************************************************)
HeadNode == 1

\* BytesComparator.Compare(a, b)
RECURSIVE BytesCompareFrom(_, _, _)
BytesCompareFrom(aBytes, bBytes, i) ==
    LET aLen == Len(aBytes)
        bLen == Len(bBytes)
        minLen == IF bLen < aLen THEN bLen ELSE aLen
    IN  IF i < minLen
        THEN IF aBytes[i + 1] < bBytes[i + 1] THEN -1
             ELSE IF aBytes[i + 1] > bBytes[i + 1] THEN 1
             ELSE BytesCompareFrom(aBytes, bBytes, i + 1)
        ELSE IF aLen < bLen THEN -1
             ELSE IF aLen > bLen THEN 1
             ELSE 0

BytesCompare(a, b) == BytesCompareFrom(a, b, 0)

\* sl.comparator.Compare(a, b)
Compare(cmp, a, b) == BytesCompare(a, b)

\* NewSkipList(cmp): panics on a nil comparator, else an empty list of level 1
NewSkipList(cmp) ==
    IF cmp = "nil"
    THEN [panicked |-> TRUE, list |-> <<>>]
    ELSE [panicked |-> FALSE,
          list |-> [nodes |-> (HeadNode :> [key |-> <<>>, value |-> <<>>,
                                            forward |-> [i \in 1..maxLevel |-> Nil]]),
                    comparator |-> cmp,
                    level |-> 1,
                    size |-> 0]]

\* an inner loop that also moves past a node with an equal key
RECURSIVE WalkPastEqual(_, _, _, _)
WalkPastEqual(sl, x, i, key) ==
    LET next == sl.nodes[x].forward[i + 1] IN
    IF next # Nil /\ Compare(sl.comparator, sl.nodes[next].key, key) <= 0
    THEN WalkPastEqual(sl, next, i, key)
    ELSE x

\* the inner loop of the descent: from x along level i while the next key is less
RECURSIVE Walk(_, _, _, _)
Walk(sl, x, i, key) ==
    LET next == sl.nodes[x].forward[i + 1] IN
    IF next # Nil /\ Compare(sl.comparator, sl.nodes[next].key, key) < 0
    THEN Walk(sl, next, i, key)
    ELSE x

\* the descent of Insert and Delete from level i down: x where it ends and
\* update, the last node visited at each level (Nil where none was recorded)
RECURSIVE Descend(_, _, _, _, _)
Descend(sl, x, i, key, update) ==
    IF i < 0 THEN [x |-> x, update |-> update]
    ELSE LET y == Walk(sl, x, i, key)
             recorded == [update EXCEPT ![i + 1] = y]
         IN  \* the test evaluates y and recorded at this level of the loop
             IF y \in DOMAIN sl.nodes /\ DOMAIN recorded = DOMAIN update
             THEN Descend(sl, y, i - 1, key, recorded)
             ELSE [x |-> x, update |-> update]

NoUpdate == [i \in 1..maxLevel |-> Nil]

\* a Find that returns the successor found without comparing its key
FindAnySuccessor(sl, key) ==
    LET d == Descend(sl, HeadNode, sl.level - 1, key, NoUpdate)
        x == sl.nodes[d.x].forward[1]
    IN  IF x # Nil
        THEN [value |-> sl.nodes[x].value, found |-> TRUE]
        ELSE [value |-> <<>>, found |-> FALSE]

\* SkipList.Find(key)
Find(sl, key) ==
    LET d == Descend(sl, HeadNode, sl.level - 1, key, NoUpdate)
        x == sl.nodes[d.x].forward[1]
    IN  IF x # Nil /\ Compare(sl.comparator, sl.nodes[x].key, key) = 0
        THEN [value |-> sl.nodes[x].value, found |-> TRUE]
        ELSE [value |-> <<>>, found |-> FALSE]

\* the id of a newly allocated node.  The code never looks at an address
\* except to compare two of them, so any unused id will do: the node of a key
\* is named by the key's rank among the keys of the model, and a second node
\* of the same key by the first unused id past the ranks.
AllKeys == Keys \cup {<<1>>, <<2>>, <<2, 1>>}
KeyId(key) == HeadNode + 1 + Cardinality({k \in AllKeys : BytesCompare(k, key) < 0})
NewNodeId(sl, key) ==
    IF KeyId(key) \notin DOMAIN sl.nodes THEN KeyId(key)
    ELSE CHOOSE n \in (HeadNode + Cardinality(AllKeys) + 1)
                        ..(HeadNode + Cardinality(AllKeys) + Cardinality(DOMAIN sl.nodes) + 1) :
            n \notin DOMAIN sl.nodes

\* an Insert that allocates a node also when the key is in the list
InsertAlwaysNew(sl, key, value, level) ==
    LET d == Descend(sl, HeadNode, sl.level - 1, key, NoUpdate)
        update == [i \in 1..maxLevel |->
                      IF level > sl.level /\ i > sl.level /\ i <= level
                      THEN HeadNode ELSE d.update[i]]
        n == NewNodeId(sl, key)
        newNode == [key |-> key, value |-> value,
                    forward |-> [i \in 1..level |-> sl.nodes[update[i]].forward[i]]]
    IN  [sl EXCEPT
           !.nodes = [id \in DOMAIN sl.nodes \cup {n} |->
                        IF id = n THEN newNode
                        ELSE [sl.nodes[id] EXCEPT !.forward =
                                [i \in DOMAIN @ |->
                                   IF i <= level /\ update[i] = id THEN n ELSE @[i]]]],
           !.level = IF level > sl.level THEN level ELSE sl.level,
           !.size = @ + 1]

\* SkipList.Insert(key, value), where randomLevel() returns level
Insert(sl, key, value, level) ==
    LET d == Descend(sl, HeadNode, sl.level - 1, key, NoUpdate)
        x == sl.nodes[d.x].forward[1]
    IN  IF x # Nil /\ Compare(sl.comparator, sl.nodes[x].key, key) = 0
        THEN [sl EXCEPT !.nodes[x].value = value]
        ELSE LET update == [i \in 1..maxLevel |->
                               IF level > sl.level /\ i > sl.level /\ i <= level
                               THEN HeadNode ELSE d.update[i]]
                 newLevel == IF level > sl.level THEN level ELSE sl.level
                 n == NewNodeId(sl, key)
                 newNode == [key |-> key, value |-> value,
                             forward |-> [i \in 1..level |-> sl.nodes[update[i]].forward[i]]]
             IN  [sl EXCEPT
                    !.nodes = [id \in DOMAIN sl.nodes \cup {n} |->
                                 IF id = n THEN newNode
                                 ELSE [sl.nodes[id] EXCEPT !.forward =
                                         [i \in DOMAIN @ |->
                                            IF i <= level /\ update[i] = id THEN n ELSE @[i]]]],
                    !.level = newLevel,
                    !.size = @ + 1]

\* an unlink loop that stops after level 0
UnlinkBottomOnly(nodes, update, x, i, level) ==
    IF i >= 1 THEN nodes
    ELSE IF nodes[update[i + 1]].forward[i + 1] # x THEN nodes
    ELSE [nodes EXCEPT ![update[i + 1]].forward[i + 1] = nodes[x].forward[i + 1]]

\* the unlink loop of Delete from level i up: stops at the first level whose
\* predecessor does not point at x
RECURSIVE Unlink(_, _, _, _, _)
Unlink(nodes, update, x, i, level) ==
    IF i >= level THEN nodes
    ELSE IF nodes[update[i + 1]].forward[i + 1] # x THEN nodes
    ELSE Unlink([nodes EXCEPT ![update[i + 1]].forward[i + 1] = nodes[x].forward[i + 1]],
                update, x, i + 1, level)

\* a Delete that leaves the level as it is
ShrinkLevelNever(nodes, level) == level

\* the loop of Delete that lowers the level while the head's top link is nil
RECURSIVE ShrinkLevel(_, _)
ShrinkLevel(nodes, level) ==
    IF level > 1 /\ nodes[HeadNode].forward[level] = Nil
    THEN ShrinkLevel(nodes, level - 1)
    ELSE level

\* the nodes some pointer still refers to; the rest is garbage
Live(nodes) ==
    {id \in DOMAIN nodes :
        \/ id = HeadNode
        \/ \E other \in DOMAIN nodes : \E i \in DOMAIN nodes[other].forward :
              other # id /\ nodes[other].forward[i] = id}

RECURSIVE Collect(_)
Collect(nodes) ==
    IF Live(nodes) = DOMAIN nodes THEN nodes
    ELSE Collect([id \in Live(nodes) |-> nodes[id]])

\* a Delete that does not count the node it removes
DeleteKeepsSize(sl, key) ==
    LET d == Descend(sl, HeadNode, sl.level - 1, key, NoUpdate)
        x == sl.nodes[d.x].forward[1]
    IN  IF x = Nil \/ Compare(sl.comparator, sl.nodes[x].key, key) # 0
        THEN [list |-> sl, found |-> FALSE]
        ELSE LET unlinked == Unlink(sl.nodes, d.update, x, 0, sl.level)
             IN  [list |-> [sl EXCEPT !.nodes = Collect(unlinked),
                                      !.level = ShrinkLevel(unlinked, sl.level)],
                  found |-> TRUE]

\* SkipList.Delete(key): the list after it and what it returns
Delete(sl, key) ==
    LET d == Descend(sl, HeadNode, sl.level - 1, key, NoUpdate)
        x == sl.nodes[d.x].forward[1]
    IN  IF x = Nil \/ Compare(sl.comparator, sl.nodes[x].key, key) # 0
        THEN [list |-> sl, found |-> FALSE]
        ELSE LET unlinked == Unlink(sl.nodes, d.update, x, 0, sl.level)
             IN  [list |-> [sl EXCEPT !.nodes = Collect(unlinked),
                                      !.level = ShrinkLevel(unlinked, sl.level),
                                      !.size = @ - 1],
                  found |-> TRUE]

\* the key/value pairs along the level-0 chain from node x, in chain order
RECURSIVE ChainFrom(_, _)
ChainFrom(sl, x) ==
    IF x = Nil THEN <<>>
    ELSE <<[key |-> sl.nodes[x].key, value |-> sl.nodes[x].value]>>
            \o ChainFrom(sl, sl.nodes[x].forward[1])

\* what an iteration from NewIterator with Next until Valid is false yields
Entries(sl) == ChainFrom(sl, sl.nodes[HeadNode].forward[1])

(***************************************************************************)
(* The MemTable.                                                           *)
(***************************************************************************)
\* a Put that inserts whatever WAL.Write returned
PutResultApplyFirst(f, w0, sl, key, value, o, level) ==
    LET st == WriteResult(f, w0, PutRecord(key, value), o)
    IN  [file |-> st.file, w |-> st.w, wal |-> st.ret, ret |-> st.ret,
         list |-> Insert(sl, key, value, level)]

\* MemTable.Put(key, value): Write first, Insert only after it returned nil;
\* wal is what WAL.Write returned, ret what Put returns
PutResult(f, w0, sl, key, value, o, level) ==
    LET st == WriteResult(f, w0, PutRecord(key, value), o)
    IN  IF st.ret # "nil"
        THEN [file |-> st.file, w |-> st.w, wal |-> st.ret, ret |-> st.ret, list |-> sl]
        ELSE [file |-> st.file, w |-> st.w, wal |-> st.ret, ret |-> "nil",
              list |-> Insert(sl, key, value, level)]

\* MemTable.Delete(key)
DeleteResult(f, w0, sl, key, o) ==
    LET st == WriteResult(f, w0, DeleteRecord(key), o)
    IN  IF st.ret # "nil"
        THEN [file |-> st.file, w |-> st.w, wal |-> st.ret, ret |-> st.ret, list |-> sl]
        ELSE [file |-> st.file, w |-> st.w, wal |-> st.ret, ret |-> "nil",
              list |-> Delete(sl, key).list]

\* the loop of New: the records the iterator returns applied to the list in
\* order, until Next returns an error; levels[i] is what randomLevel returns
\* for record i
RECURSIVE ApplyToList(_, _, _, _)
ApplyToList(sl, recs, i, levels) ==
    IF i > Len(recs) THEN sl
    ELSE LET record == recs[i] IN
         ApplyToList(IF record.Type = TypePut
                     THEN Insert(sl, record.Key, record.Value, levels[i])
                     ELSE IF record.Type = TypeDelete
                     THEN Delete(sl, record.Key).list
                     ELSE sl,
                     recs, i + 1, levels)

\* memtable.New(walPath, syncWrites) on file f: "io" when wal.Open or
\* NewIterator fails, "panic" when NewSkipList panics, else "ok" and the list
NewResult(f, openOk, levels) ==
    LET log == OpenResult(f, FALSE)
        made == NewSkipList("nil")
    IN  IF ~openOk THEN [new |-> "io", list |-> <<>>]
        ELSE IF made.panicked THEN [new |-> "panic", list |-> <<>>]
        ELSE LET it == NewIteratorResult(log)
                 recs == Drain(f, it.offset, it.fileEnd, <<>>).recs
             IN  [new |-> "ok", list |-> ApplyToList(made.list, recs, 1, levels)]

NoNew == [new |-> "none", list |-> <<>>]

\* the levels randomLevel may return in the model
DrawLevels == 1..MaxDrawLevel

MemHist(ret) == [hist EXCEPT !.fails = Fails(w, ret)]

Put(key, value) ==
    /\ mt.made
    /\ \E o \in IOOutcomes(w, Len(RecordBuf[PutRecord(key, value)]), MayFail),
          level \in DrawLevels :
         LET st == PutResult(file, w, list, key, value, o, level) IN
         /\ Len(st.file) <= MaxFileLen
         /\ file' = st.file
         /\ w' = st.w
         /\ list' = st.list
         /\ call' = [op |-> "Put", ret |-> st.ret, wal |-> st.wal]
         /\ hist' = MemHist(st.ret)
    /\ UNCHANGED <<iter, obs, mt, mu, pc, cur, rd>>

MemDelete(key) ==
    /\ mt.made
    /\ \E o \in IOOutcomes(w, Len(RecordBuf[DeleteRecord(key)]), MayFail) :
         LET st == DeleteResult(file, w, list, key, o) IN
         /\ Len(st.file) <= MaxFileLen
         /\ file' = st.file
         /\ w' = st.w
         /\ list' = st.list
         /\ call' = [op |-> "Delete", ret |-> st.ret, wal |-> st.wal]
         /\ hist' = MemHist(st.ret)
    /\ UNCHANGED <<iter, obs, mt, mu, pc, cur, rd>>

\* MemTable.Close()
MemClose ==
    /\ mt.made
    /\ w.state = "open"
    /\ w' = [w EXCEPT !.state = "closed"]
    /\ call' = [op |-> "Close", ret |-> "nil", wal |-> "nil"]
    /\ UNCHANGED <<file, list, hist, iter, obs, mt, mu, pc, cur, rd>>

\* New on the path of the MemTable's file
New(openOk) ==
    /\ mt.made
    /\ \E levels \in [1..Len(Replay(file).recs) -> DrawLevels] :
         LET res == NewResult(file, openOk, levels) IN
         /\ mt' = [mt EXCEPT !.last = res]
         /\ call' = [op |-> "New", ret |-> IF res.new = "ok" THEN "nil" ELSE res.new,
                     wal |-> "nil"]
    /\ UNCHANGED <<file, w, list, hist, iter, obs, mu, pc, cur, rd>>

\* New returns no MemTable (see NewResult), so the MemTable of this
\* specification is put together from its two fields as code inside package
\* memtable can: log from wal.Open on a new file, skipList from NewSkipList
\* with the comparator of []byte keys
MemInit ==
    /\ file = <<>>
    /\ \E syncOps \in BOOLEAN : w = OpenResult(<<>>, syncOps)
    /\ list = NewSkipList("bytes").list
    /\ mt = [made |-> TRUE, last |-> NoNew]
    /\ iter = NoIter
    /\ call = NoCall
    /\ hist = [logged |-> <<>>, clean |-> FALSE, twin |-> NoTwin, fails |-> 0, opens |-> 1]
    /\ obs = NoObs
    /\ mu = 0
    /\ pc = 0
    /\ cur = 0
    /\ rd = 0

MemNext ==
    \/ \E key \in Keys, value \in Values : Put(key, value)
    \/ \E key \in Keys : MemDelete(key)
    \/ MemClose
    \/ \E openOk \in BOOLEAN : New(openOk)

\* one caller using a MemTable
SpecMem == MemInit /\ [][MemNext]_vars

(***************************************************************************)
(* Claims about the MemTable.                                              *)
(***************************************************************************)
\* a map from keys to values as the set of its entries, after the records
\* recs[i..] were applied to it: Put inserts or overwrites, Delete removes
RECURSIVE ApplyToMap(_, _, _)
ApplyToMap(map, recs, i) ==
    IF i > Len(recs) THEN map
    ELSE LET record == recs[i]
             others == {e \in map : e.key # record.Key}
         IN  ApplyToMap(IF record.Type = TypePut
                        THEN others \cup {[key |-> record.Key, value |-> record.Value]}
                        ELSE others,
                        recs, i + 1)

\* the entries of a skip list as a set
EntrySet(sl) == {Entries(sl)[i] : i \in 1..Len(Entries(sl))}

\* C1: a Put or Delete whose WAL.Write returned an error returns that error
\* and leaves the skip list, nodes, links, level and size, as it was.
C1_FailedWriteLeavesList ==
    [][(call'.op \in {"Put", "Delete"} /\ call'.wal # "nil")
          => (call'.ret = call'.wal /\ list' = list)]_vars

\* a Put or Delete failed in the WAL on a MemTable that holds an entry
C1_Witness ==
    /\ call.op \in {"Put", "Delete"} /\ call.wal # "nil"
    /\ list.size > 0

\* C2: New on a file of one or more valid records, unless wal.Open fails,
\* returns a MemTable whose skip list holds the map those records build in
\* file order.
C2_NewRebuildsFromLog ==
    [][(/\ call'.op = "New" /\ call'.ret # "io"
        /\ Replay(file).offset = Len(file) /\ Replay(file).recs # <<>>)
          => /\ mt'.last.new = "ok"
             /\ EntrySet(mt'.last.list) = ApplyToMap({}, Replay(file).recs, 1)]_vars

\* C3: the skip list of a MemTable holds what a replay of its WAL file from
\* offset 0 builds.
C3_ListIsReplayOfFile ==
    mt.made => EntrySet(list) = ApplyToMap({}, Replay(file).recs, 1)

\* C4: New on a file whose replay stops at a record with a bad checksum or
\* type returns, unless wal.Open fails, a MemTable built from the records
\* before that one.
C4_NewKeepsValidPrefix ==
    [][(/\ call'.op = "New" /\ call'.ret # "io"
        /\ Replay(file).err \in {"invalid checksum", "invalid record"})
          => /\ mt'.last.new = "ok"
             /\ EntrySet(mt'.last.list) = ApplyToMap({}, Replay(file).recs, 1)]_vars

(***************************************************************************)
(* The WAL used by several threads.  A call of Write, WriteBatch,          *)
(* Truncate, NewIterator or Close takes w.mu, runs its body in steps and   *)
(* releases w.mu when it returns (defer w.mu.Unlock()).  Iterator.Next     *)
(* takes no lock and reads the file through the iterator's own handle.     *)
(***************************************************************************)
Threads == {1, 2}

\* the calls the threads make
ConcWrites == {<<PutRecord(<<1>>, <<7>>)>>}
ConcBatches == {<<PutRecord(<<1>>, <<7>>), DeleteRecord(<<1>>)>>}
NoOutcome == [kind |-> "ok", n |-> 0]
ConcCalls ==
    {[op |-> "Write", records |-> rs, o |-> NoOutcome, ret |-> "nil"] : rs \in ConcWrites}
    \cup {[op |-> "WriteBatch", records |-> rs, o |-> NoOutcome, ret |-> "nil"] : rs \in ConcBatches}
    \cup {[op |-> op, records |-> <<>>, o |-> NoOutcome, ret |-> "nil"] :
            op \in {"Truncate", "NewIterator", "Close"}}
NoCur == [op |-> "none", records |-> <<>>, o |-> NoOutcome, ret |-> "nil"]
NoRead == [stage |-> "idle", res |-> NextError("nil")]

\* the buffer a Write or WriteBatch call builds before it touches the file
CallBuf(c) == IF c.op = "Write" THEN RecordBuf[c.records[1]] ELSE BatchBuf[c.records]

\* the bytes that the Write and WriteBatch calls of threads ts that have not
\* reached w.file.Write yet will hand to it
RECURSIVE PendingBytes(_)
PendingBytes(ts) ==
    IF ts = {} THEN 0
    ELSE LET u == CHOOSE u \in ts : TRUE IN
         (IF pc[u] \in {"lock", "body"} /\ cur[u].op \in {"Write", "WriteBatch"}
          THEN Len(CallBuf(cur[u])) ELSE 0) + PendingBytes(ts \ {u})

\* a thread enters a call: w.mu.Lock() is next; a call that writes is made
\* only while the file has room for it and for the writes already under way
Begin(t, c) ==
    /\ pc[t] = "idle"
    /\ hist.calls < MaxCalls
    /\ c.op \in {"Write", "WriteBatch"} =>
          Max(Len(file), w.pos) + PendingBytes(Threads) + Len(CallBuf(c)) <= MaxFileLen
    /\ c.op = "NewIterator" => iter.state = "none"
    /\ pc' = [pc EXCEPT ![t] = "lock"]
    /\ cur' = [cur EXCEPT ![t] = c]
    /\ hist' = [hist EXCEPT !.calls = @ + 1]
    /\ UNCHANGED <<file, w, iter, call, obs, list, mt, mu, rd>>

\* w.mu.Lock()
Lock(t) ==
    /\ pc[t] = "lock"
    /\ mu = Nil
    /\ mu' = t
    /\ pc' = [pc EXCEPT ![t] = "body"]
    /\ UNCHANGED <<file, w, iter, call, hist, obs, list, mt, cur, rd>>

\* an error return of file.Write that leaves the method with w.mu held
AfterWriteReturnsLocked(ret) == IF ret = "nil" THEN "sync" ELSE "idle"

\* where a call is after w.file.Write returned ret: before the Sync, or, on
\* an error, at its return, which runs the deferred w.mu.Unlock()
AfterWrite(ret) == IF ret = "nil" THEN "sync" ELSE "unlock"

\* w.file.Write(buf) of Write and WriteBatch
FileWrite(t) ==
    /\ pc[t] = "body"
    /\ cur[t].op \in {"Write", "WriteBatch"}
    /\ \E o \in IOOutcomes(w, Len(CallBuf(cur[t])), MayFail) :
         LET st == FileWriteStep(file, w, CallBuf(cur[t]), o) IN
         /\ Len(st.file) <= MaxFileLen
         /\ file' = st.file
         /\ w' = st.w
         /\ cur' = [cur EXCEPT ![t].o = o, ![t].ret = st.ret]
         /\ pc' = [pc EXCEPT ![t] = AfterWrite(st.ret)]
         /\ hist' = [hist EXCEPT !.fails = Fails(w, st.ret)]
    /\ UNCHANGED <<iter, call, obs, list, mt, mu, rd>>

\* the optional w.file.Sync() and w.size += n of Write and WriteBatch
SyncSize(t) ==
    /\ pc[t] = "sync"
    /\ LET buf == CallBuf(cur[t])
           st == SyncAndSize([file |-> file, w |-> w, ret |-> "nil"], Len(buf), cur[t].o)
       IN  /\ w' = st.w
           /\ cur' = [cur EXCEPT ![t].ret = st.ret]
           /\ hist' = IF st.ret = "nil"
                      THEN [hist EXCEPT !.logged = @ \o cur[t].records,
                                        !.bufs = Append(@, buf)]
                      ELSE [hist EXCEPT !.fails = Fails(w, st.ret)]
    /\ pc' = [pc EXCEPT ![t] = "unlock"]
    /\ UNCHANGED <<file, iter, call, obs, list, mt, mu, rd>>

\* the body of Truncate
TruncateBody(t) ==
    /\ pc[t] = "body"
    /\ cur[t].op = "Truncate"
    /\ \E o \in TruncateOutcomes(w, MayFail) :
         LET st == TruncateResult(file, w, o) IN
         /\ file' = st.file
         /\ w' = st.w
         /\ cur' = [cur EXCEPT ![t].ret = st.ret]
         /\ hist' = IF st.ret = "nil"
                    THEN [hist EXCEPT !.logged = <<>>, !.bufs = <<>>]
                    ELSE [hist EXCEPT !.fails = Fails(w, st.ret)]
    /\ pc' = [pc EXCEPT ![t] = "unlock"]
    /\ UNCHANGED <<iter, call, obs, list, mt, mu, rd>>

\* the body of NewIterator: os.Open of the file's name, which may fail, then
\* the Iterator; obs.seen records the file and w.size it was created on
NewIteratorBody(t) ==
    /\ pc[t] = "body"
    /\ cur[t].op = "NewIterator"
    /\ \/ /\ iter' = NewIteratorResult(w)
          /\ obs' = [snap |-> hist.logged, seen |-> [file |-> file, size |-> w.size],
                     recs |-> <<>>, err |-> "nil"]
          /\ UNCHANGED <<cur, hist>>
       \/ /\ MayFail
          /\ cur' = [cur EXCEPT ![t].ret = "io"]
          /\ hist' = [hist EXCEPT !.fails = @ + 1]
          /\ UNCHANGED <<iter, obs>>
    /\ pc' = [pc EXCEPT ![t] = "unlock"]
    /\ UNCHANGED <<file, w, call, list, mt, mu, rd>>

\* the body of Close
CloseBody(t) ==
    /\ pc[t] = "body"
    /\ cur[t].op = "Close"
    /\ w' = [w EXCEPT !.state = "closed"]
    /\ cur' = [cur EXCEPT ![t].ret = IF w.state = "open" THEN "nil" ELSE "closed"]
    /\ pc' = [pc EXCEPT ![t] = "unlock"]
    /\ UNCHANGED <<file, iter, call, hist, obs, list, mt, mu, rd>>

\* the deferred w.mu.Unlock() and the return
Unlock(t) ==
    /\ pc[t] = "unlock"
    /\ mu = t
    /\ mu' = Nil
    /\ pc' = [pc EXCEPT ![t] = "idle"]
    /\ call' = [op |-> cur[t].op, ret |-> cur[t].ret]
    /\ cur' = [cur EXCEPT ![t] = NoCur]
    /\ UNCHANGED <<file, w, iter, hist, obs, list, mt, rd>>

\* Iterator.Next up to the read of the checksum, by the thread that owns the
\* iterator; it holds no lock
NextBegin ==
    /\ iter.state = "open"
    /\ rd.stage = "idle"
    /\ obs.err = "nil"
    /\ rd' = [stage |-> "read",
              res |-> IF iter.offset >= iter.fileEnd THEN NextError("EOF")
                      ELSE NextRead(file, iter.offset)]
    /\ UNCHANGED <<file, w, iter, call, hist, obs, list, mt, mu, pc, cur>>

\* the rest of Iterator.Next: the second read of the record, the comparison
\* of the checksums and the return
NextEnd ==
    /\ rd.stage = "read"
    /\ LET r == IF rd.res.err # "nil" THEN rd.res
                ELSE NextVerify(file, iter.offset, rd.res)
       IN  /\ iter' = [iter EXCEPT !.offset = @ + r.size]
           /\ obs' = [obs EXCEPT !.recs = IF r.err = "nil" THEN Append(@, r.rec) ELSE @,
                                 !.err = r.err]
    /\ rd' = NoRead
    /\ UNCHANGED <<file, w, call, hist, list, mt, mu, pc, cur>>

\* a WAL that Open returned for a new file, and threads about to call it
ConcInit ==
    /\ file = <<>>
    /\ \E syncOps \in BOOLEAN : w = OpenResult(<<>>, syncOps)
    /\ iter = NoIter
    /\ call = NoCall
    /\ hist = [logged |-> <<>>, bufs |-> <<>>, fails |-> 0, calls |-> 0]
    /\ obs = [snap |-> <<>>, seen |-> [file |-> <<>>, size |-> 0],
              recs |-> <<>>, err |-> "nil"]
    /\ list = 0
    /\ mt = 0
    /\ mu = Nil
    /\ pc = [t \in Threads |-> "idle"]
    /\ cur = [t \in Threads |-> NoCur]
    /\ rd = NoRead

ConcNext ==
    \/ \E t \in Threads, c \in ConcCalls : Begin(t, c)
    \/ \E t \in Threads : Lock(t)
    \/ \E t \in Threads : FileWrite(t)
    \/ \E t \in Threads : SyncSize(t)
    \/ \E t \in Threads : TruncateBody(t)
    \/ \E t \in Threads : NewIteratorBody(t)
    \/ \E t \in Threads : CloseBody(t)
    \/ \E t \in Threads : Unlock(t)
    \/ NextBegin
    \/ NextEnd

\* threads calling one WAL while an iterator reads it
SpecConc == ConcInit /\ [][ConcNext]_vars

\* the steps of thread t inside a call, after its w.mu.Lock()
Inside(t) ==
    \/ FileWrite(t)
    \/ SyncSize(t)
    \/ TruncateBody(t)
    \/ NewIteratorBody(t)
    \/ CloseBody(t)
    \/ Unlock(t)

\* the same threads under a fair scheduler: a thread inside a call keeps
\* running, and a thread blocked in w.mu.Lock() gets the mutex if it is
\* released again and again (sync.Mutex hands it to a starving waiter)
SpecConcFair ==
    /\ SpecConc
    /\ \A t \in Threads : WF_vars(Inside(t)) /\ SF_vars(Lock(t))

(***************************************************************************)
(* Claims about the WAL used by several threads.                           *)
(***************************************************************************)
\* C20: a thread that is in no call, or waits in Lock, does not hold w.mu:
\* every exit path, error returns included, has released it; and under the
\* fair scheduler every call that was entered returns.
C20_MutexReleasedAndCallsReturn ==
    /\ [](\A t \in Threads : pc[t] \in {"idle", "lock"} => mu # t)
    /\ \A t \in Threads : (pc[t] # "idle") ~> (pc[t] = "idle")

\* a call has returned an error and released w.mu while the other thread
\* waits in Lock
C20_Witness ==
    /\ call.ret # "nil" /\ mu = Nil
    /\ \E t \in Threads : pc[t] = "lock"

\* whether the file and w.size in seen are exactly the records logged and no
\* other byte
CleanLog(seen, logged) ==
    /\ Replay(seen.file).recs = logged
    /\ Replay(seen.file).offset = Len(seen.file)
    /\ seen.size = Len(seen.file)

\* C8: an iterator created on a log that held exactly the records written
\* returns a prefix of those records in order whatever calls other threads
\* interleave with its Next calls, and its first error is end-of-log,
\* returned after all of them.
C8_IteratorSeesCreationLog ==
    (iter.state = "open" /\ CleanLog(obs.seen, obs.snap)) =>
        /\ IsPrefix(obs.recs, obs.snap)
        /\ obs.err # "nil" => (obs.err = "EOF" /\ obs.recs = obs.snap)

RECURSIVE Concat(_, _)
Concat(bufs, i) == IF i > Len(bufs) THEN <<>> ELSE bufs[i] \o Concat(bufs, i + 1)

\* C9: whenever no call is between its file write and its size update, the
\* file is the buffers of the Write and WriteBatch calls that returned nil,
\* whole and one after the other in some order, and w.size is the sum of
\* their lengths.
C9_FileIsWholeBuffers ==
    (\A t \in Threads : pc[t] # "sync") =>
        /\ \E order \in Permutations(1..Len(hist.bufs)) :
              file = Concat([i \in 1..Len(hist.bufs) |-> hist.bufs[order[i]]], 1)
        /\ w.size = Len(Concat(hist.bufs, 1))

(***************************************************************************)
(* A log whose bytes are altered on disk.  The log was written by Write    *)
(* calls that all returned nil and an iterator was created on it; then one *)
(* byte inside one record changes and the iterator is driven with Next.    *)
(***************************************************************************)
Logs == SeqsUpTo(Records, MaxLog) \ {<<>>}
\* the values a byte old is altered to: each of its bits flipped, the type
\* bytes and their neighbours, all bits set
Altered(old) ==
    ({XorByte(old, 2 ^ k) : k \in 0..7} \cup {0, TypePut, TypeDelete, 3, 255}) \ {old}

NoDamage == [at |-> -1, rec |-> 0, field |-> "none"]

\* the field of a record of the model that the byte at offset p of its
\* buffer belongs to (the lengths of the model's records take one byte each)
FieldOf(record, p) ==
    IF p = 0 THEN "type"
    ELSE IF p = 1 THEN "keyLen"
    ELSE IF p = 2 THEN "valueLen"
    ELSE IF p < 3 + Len(record.Key) THEN "key"
    ELSE IF p < 3 + Len(record.Key) + Len(record.Value) THEN "value"
    ELSE "checksum"

\* the record of the log records whose span holds offset p, with the field:
\* record i starts at offset start
RECURSIVE Locate(_, _, _, _)
Locate(records, i, start, p) ==
    LET n == Len(RecordBuf[records[i]]) IN
    IF p < start + n
    THEN [at |-> p, rec |-> i, field |-> FieldOf(records[i], p - start)]
    ELSE Locate(records, i + 1, start + n, p)

\* the byte at offset p of the file becomes b, before the first Next
Corrupt(p, b) ==
    /\ hist.damage = NoDamage
    /\ obs.recs = <<>> /\ obs.err = "nil"
    /\ p < Len(file)
    /\ b \in Altered(file[p + 1])
    /\ file' = [file EXCEPT ![p + 1] = b]
    /\ hist' = [hist EXCEPT !.damage = Locate(hist.logged, 1, 0, p)]
    /\ UNCHANGED <<w, iter, call, obs, notWal>>

\* the records of a log written to a new file, and an iterator on it
CorruptInit ==
    /\ \E records \in Logs :
         /\ file = Concat([i \in 1..Len(records) |-> RecordBuf[records[i]]], 1)
         /\ hist = [logged |-> records, clean |-> TRUE, twin |-> NoTwin,
                    fails |-> 0, opens |-> 1, damage |-> NoDamage]
         /\ obs = [snap |-> records, clean |-> TRUE, recs |-> <<>>, err |-> "nil"]
    /\ w = [OpenResult(<<>>, FALSE) EXCEPT !.pos = Len(file), !.size = Len(file)]
    /\ iter = NewIteratorResult(w)
    /\ call = [op |-> "NewIterator", ret |-> "nil"]
    /\ list = 0
    /\ mt = 0
    /\ mu = 0
    /\ pc = 0
    /\ cur = 0
    /\ rd = 0

CorruptNext ==
    \/ \E p \in 0..(MaxFileLen - 1), b \in 0..255 : Corrupt(p, b)
    \/ Next

\* an iterator reading a log of which one byte was altered
SpecCorrupt == CorruptInit /\ [][CorruptNext]_vars

\* C11 as stated: whichever byte of a record is altered, Next returns no
\* record from the altered one on, and the error it returns is the
\* invalid-checksum error.
C11_AnyByteInvalidChecksum ==
    hist.damage # NoDamage =>
        /\ Len(obs.recs) < hist.damage.rec
        /\ obs.err # "nil" => obs.err = "invalid checksum"

\* C11 amended: when the altered byte is the type byte, a byte of the key or
\* the value, or a byte of the checksum, Next returns no record from the
\* altered one on; its error is the invalid-record error when the type byte
\* is no longer TypePut or TypeDelete and the invalid-checksum error otherwise.
C11_ByteOutsideLengths ==
    (hist.damage # NoDamage /\ hist.damage.field \notin {"keyLen", "valueLen"}) =>
        /\ Len(obs.recs) < hist.damage.rec
        /\ obs.err # "nil" =>
              obs.err = IF /\ hist.damage.field = "type"
                           /\ file[hist.damage.at + 1] \notin {TypePut, TypeDelete}
                        THEN "invalid record" ELSE "invalid checksum"

\* the iterator returned the first record and failed on the second, a byte
\* of whose key was altered
C11_Witness ==
    /\ hist.damage.rec = 2 /\ hist.damage.field = "key"
    /\ Len(obs.recs) = 1 /\ obs.err = "invalid checksum"

(***************************************************************************)
(* The skip list used by one caller.                                       *)
(***************************************************************************)
\* keys, in comparator order <<1>> < <<2>> < <<2, 1>>, and the levels
\* randomLevel returns in this model: the low ones and the highest
ListKeys == AllKeys
ListLevels == (1..MaxDrawLevel) \cup {maxLevel}

\* a Seek that stays on the node the descent ends on
SeekStaysOnPredecessor(sl, key) ==
    LET d == Descend(sl, HeadNode, sl.level - 1, key, NoUpdate)
    IN  IF d.x = HeadNode THEN Nil ELSE d.x

\* Iterator.Seek(key): the node iter.current is left on, Nil when invalid
Seek(sl, key) ==
    LET d == Descend(sl, HeadNode, sl.level - 1, key, NoUpdate)
    IN  sl.nodes[d.x].forward[1]

\* SkipList.Size()
Size(sl) == sl.size

\* the ids of the nodes along the level-i chain from node x (x excluded)
RECURSIVE LevelChain(_, _, _)
LevelChain(sl, x, i) ==
    LET next == IF i + 1 \in DOMAIN sl.nodes[x].forward
                THEN sl.nodes[x].forward[i + 1] ELSE Nil
    IN  IF next = Nil THEN <<>> ELSE <<next>> \o LevelChain(sl, next, i)

NoListCall == [op |-> "none", key |-> <<>>, value |-> <<>>, ret |-> FALSE,
               existed |-> FALSE, cur |-> Nil]

\* sl.Insert(key, value); randomLevel is called, and draws level, only when
\* the key is not in the list
ListInsert(key, value, level) ==
    /\ Find(list, key).found => level = 1
    /\ list' = Insert(list, key, value, level)
    /\ call' = [NoListCall EXCEPT !.op = "Insert", !.key = key, !.value = value,
                                  !.existed = Find(list, key).found]
    /\ hist' = [map |-> ApplyToMap(hist.map, <<PutRecord(key, value)>>, 1)]
    /\ UNCHANGED <<file, w, iter, obs, mt, mu, pc, cur, rd>>

\* sl.Delete(key)
ListDelete(key) ==
    /\ list' = Delete(list, key).list
    /\ call' = [NoListCall EXCEPT !.op = "Delete", !.key = key,
                                  !.ret = Delete(list, key).found,
                                  !.existed = Find(list, key).found]
    /\ hist' = [map |-> ApplyToMap(hist.map, <<DeleteRecord(key)>>, 1)]
    /\ UNCHANGED <<file, w, iter, obs, mt, mu, pc, cur, rd>>

\* sl.Find(key)
ListFind(key) ==
    /\ call' = [NoListCall EXCEPT !.op = "Find", !.key = key,
                                  !.value = Find(list, key).value,
                                  !.ret = Find(list, key).found]
    /\ UNCHANGED <<file, w, iter, obs, hist, list, mt, mu, pc, cur, rd>>

\* sl.NewIterator().Seek(key)
ListSeek(key) ==
    /\ call' = [NoListCall EXCEPT !.op = "Seek", !.key = key, !.cur = Seek(list, key)]
    /\ UNCHANGED <<file, w, iter, obs, hist, list, mt, mu, pc, cur, rd>>

\* the list NewSkipList returns for the comparator of []byte keys
ListInit ==
    /\ list = NewSkipList("bytes").list
    /\ call = NoListCall
    /\ hist = [map |-> {}]
    /\ file = <<>>
    /\ w = NoWAL
    /\ iter = NoIter
    /\ obs = NoObs
    /\ mt = 0
    /\ mu = 0
    /\ pc = 0
    /\ cur = 0
    /\ rd = 0

ListNext ==
    \/ \E key \in ListKeys, value \in Values, level \in ListLevels :
          ListInsert(key, value, level)
    \/ \E key \in ListKeys : ListDelete(key)
    \/ \E key \in ListKeys : ListFind(key)
    \/ \E key \in ListKeys : ListSeek(key)

\* one caller using a skip list
SpecList == ListInit /\ [][ListNext]_vars

(***************************************************************************)
(* Claims about the skip list.                                             *)
(***************************************************************************)
\* the keys along the level-i chain from the head
ChainKeys(sl, i) ==
    LET ch == LevelChain(sl, HeadNode, i) IN [j \in 1..Len(ch) |-> sl.nodes[ch[j]].key]

\* the keys of a chain are in strictly increasing comparator order
Increasing(sl, keys) ==
    \A j \in 1..(Len(keys) - 1) : Compare(sl.comparator, keys[j], keys[j + 1]) < 0

\* C12: after any Insert and Delete calls the iteration from NewIterator
\* yields keys in strictly increasing order, none twice, and so does the
\* forward chain of every level.
C12_ChainsStrictlyIncreasing ==
    /\ Increasing(list, [j \in 1..Len(Entries(list)) |-> Entries(list)[j].key])
    /\ \A i \in 0..(maxLevel - 1) : Increasing(list, ChainKeys(list, i))

\* three keys are in the list, at least two of them on level 1 as well
C12_Witness ==
    /\ call.op = "Insert" /\ Len(Entries(list)) = 3
    /\ Len(LevelChain(list, HeadNode, 1)) >= 2

\* C13: Insert(k, v2) on a list that holds k leaves one entry for k, with
\* value v2, and leaves Size(), the level, the nodes and every link as they were.
C13_InsertExistingUpdates ==
    [][(call'.op = "Insert" /\ Find(list, call'.key).found) =>
          /\ Cardinality({j \in 1..Len(Entries(list')) :
                             Entries(list')[j].key = call'.key}) = 1
          /\ Find(list', call'.key) = [value |-> call'.value, found |-> TRUE]
          /\ Size(list') = Size(list)
          /\ list'.level = list.level
          /\ DOMAIN list'.nodes = DOMAIN list.nodes
          /\ \A id \in DOMAIN list.nodes :
                list'.nodes[id].forward = list.nodes[id].forward]_vars

\* an Insert replaced the value of a key that was in a list of two keys
C13_Witness ==
    /\ call.op = "Insert" /\ call.existed /\ Size(list) = 2
    /\ Find(list, call.key).value = call.value

\* C14: Delete(k) of a key in the list returns true, makes Find(k) return
\* not-found, lowers Size() by one and leaves every other key with its value;
\* Delete(k) of a key not in the list returns false and leaves the list as it was.
C14_DeleteRemovesOnlyKey ==
    [][call'.op = "Delete" =>
          IF Find(list, call'.key).found
          THEN /\ call'.ret
               /\ ~Find(list', call'.key).found
               /\ Size(list') = Size(list) - 1
               /\ \A k \in ListKeys \ {call'.key} : Find(list', k) = Find(list, k)
          ELSE /\ ~call'.ret
               /\ list' = list]_vars

\* a Delete removed one key of a list that still holds two others
C14_Witness == call.op = "Delete" /\ call.ret /\ call.existed /\ Size(list) = 2

\* C15: Seek(k) leaves the iterator on the node with the smallest key that
\* is not less than k, and invalid exactly when every key is less than k.
C15_SeekLandsOnCeiling ==
    call.op = "Seek" =>
        LET atLeast == {e \in EntrySet(list) :
                           Compare(list.comparator, e.key, call.key) >= 0}
        IN  IF atLeast = {} THEN call.cur = Nil
            ELSE /\ call.cur # Nil
                 /\ call.cur \in DOMAIN list.nodes
                 /\ \E e \in atLeast : e.key = list.nodes[call.cur].key
                 /\ \A e \in atLeast :
                       Compare(list.comparator, list.nodes[call.cur].key, e.key) <= 0

\* Seek of a key that is not in the list landed on the next greater key, past
\* a smaller one
C15_Witness ==
    /\ call.op = "Seek" /\ call.cur # Nil
    /\ ~Find(list, call.key).found
    /\ Compare(list.comparator, list.nodes[call.cur].key, call.key) > 0
    /\ \E e \in EntrySet(list) : Compare(list.comparator, e.key, call.key) < 0

\* C16: whatever levels were drawn, Find(k) returns (v, true) exactly when
\* the most recent call on k was Insert(k, v), and Size() is the number of
\* such keys: hist.map is the map the calls build.
C16_ListIsMap ==
    /\ \A k \in ListKeys :
          Find(list, k) = IF \E e \in hist.map : e.key = k
                          THEN [value |-> (CHOOSE e \in hist.map : e.key = k).value,
                                found |-> TRUE]
                          ELSE [value |-> <<>>, found |-> FALSE]
    /\ Size(list) = Cardinality(hist.map)
    /\ call.op = "Find" =>
          [key |-> call.key, value |-> call.value] \in hist.map <=> call.ret

\* Find returned the value of a key of a map of two keys
C16_Witness ==
    /\ call.op = "Find" /\ call.ret /\ Cardinality(hist.map) = 2
    /\ [key |-> call.key, value |-> call.value] \in hist.map

\* the nodes of the level-i chain from the head
ChainSet(sl, i) ==
    LET ch == LevelChain(sl, HeadNode, i) IN {ch[j] : j \in 1..Len(ch)}

\* C17: a node on the level-i chain from the head is on the level-j chain
\* for every j < i, and a deleted key is on no chain.
C17_TowersAreMonotone ==
    /\ \A i \in 1..(maxLevel - 1) : ChainSet(list, i) \subseteq ChainSet(list, i - 1)
    /\ (call.op = "Delete" /\ call.ret) =>
          \A i \in 0..(maxLevel - 1) : \A id \in ChainSet(list, i) :
              list.nodes[id].key # call.key

\* a node of a level above 0 was deleted from between two others
C17_Witness ==
    /\ call.op = "Delete" /\ call.ret /\ call.key = <<2>>
    /\ Size(list) = 2 /\ ChainSet(list, 1) # {}

\* C18: the level is between 1 and maxLevel, the head has no successor at
\* or above it, has one at the topmost level unless the level is 1, and the
\* level is 1 when the list is empty.
C18_LevelIsTopOfHead ==
    /\ list.level >= 1 /\ list.level <= 32
    /\ \A i \in list.level..(maxLevel - 1) : list.nodes[HeadNode].forward[i + 1] = Nil
    /\ list.level > 1 => list.nodes[HeadNode].forward[list.level] # Nil
    /\ Size(list) = 0 => list.level = 1

\* a Delete emptied the list and the level is 1
C18_Witness ==
    /\ call.op = "Delete" /\ call.ret /\ Size(list) = 0 /\ list.level = 1

====
